---- MODULE Spec2Model ----
(***************************************************************************)
(* Model of backend/app.py: a Flask service with two endpoints.            *)
(*   POST /api/chat runs the three LangGraph nodes handle_user_message ->  *)
(*   search_zep_history -> generate_response over the module-level stores  *)
(*   conversation_metadata and messages_db and the external Zep / LLM      *)
(*   clients.  GET /api/conversations/<id> reads a conversation.           *)
(*                                                                         *)
(* Python lists are objects: messages_db maps a conversation id to a list  *)
(* reference and heap maps a reference to the list's contents, so that the *)
(* aliasing between messages_db[cid] and state["messages"] is kept.        *)
(* The calls to Zep and to the LLM are external: their outcome is chosen   *)
(* nondeterministically at the step that makes the call.  Timestamps       *)
(* (datetime.now) are not modelled; uuid4 is a fresh value per call.       *)
(***************************************************************************)
EXTENDS Integers, Sequences, FiniteSets, TLC

VARIABLES conversation_metadata, messages_db, heap, zep_memory, req, lastGet

vars == <<conversation_metadata, messages_db, heap, zep_memory, req, lastGet>>

(* ---------------------------------------------------------------- bounds *)

\* chat requests issued over a run
MaxRequests == 2

Requests == 1..MaxRequests

(* ---------------------------------------------------------------- inputs *)

\* payload["userId"]
UserIds == {"alice", "bob"}

\* payload["conversationId"]; "" stands for a missing (falsy) id
ClientConvIds == {"c1"}

\* payload["groupName"]; "" stands for a missing (falsy) group
GroupNames == {"", "g"}

\* payload["message"]; "" stands for a missing or empty message, " " for a
\* message of white space
MessageTexts == {"", " ", "hello"}

\* ai_response.content
Replies == {"R"}

\* edge.fact of the edges graph.search returns
Facts == {"F"}

\* str(uuid.uuid4()) as a conversation id: one fresh value per request
uuid4(r) == "u" \o ToString(r)

ConvIds == ClientConvIds \cup {uuid4(r) : r \in Requests}

\* str(uuid.uuid4()) as a message id: fresh per message
UserMsgId(r) == 2 * r - 1
AiMsgId(r) == 2 * r

(* ------------------------------------------------- external call results *)

\* str(e) of an exception raised by a Zep call
ErrorTexts == {"User already exists", "Session already exists",
               "Group already exists", "Service unavailable"}

\* what a Zep create call does: returns, or raises with a text
CreateOutcomes == {"ok"} \cup ErrorTexts

\* what memory.add / memory.get / graph.add / graph.search / invoke do:
\* return something truthy, return something falsy, or raise
CallOutcomes == {"ok", "none", "error"}

\* str(e).lower()
Lower(t) ==
    CASE t = "User already exists" -> "user already exists"
      [] t = "Session already exists" -> "session already exists"
      [] t = "Group already exists" -> "group already exists"
      [] t = "Service unavailable" -> "service unavailable"
      [] OTHER -> t

\* needle in hay, for the needles and the lower-cased texts of the model
Contains(needle, hay) ==
    CASE needle = "already exists" ->
            hay \in {"user already exists", "session already exists",
                     "group already exists"}
      [] OTHER -> needle = hay

\* "user already exists" in error_msg
UserErrorBenign(text) == Contains("user already exists", Lower(text))

\* "session already exists" in error_msg
SessionErrorBenign(text) == Contains("session already exists", Lower(text))

\* "already exists" in error_msg
GroupErrorBenign(text) == Contains("already exists", Lower(text))

(* --------------------------------------------------------------- helpers *)

Bound(cid) == cid \in DOMAIN conversation_metadata

Known(cid) == cid \in DOMAIN messages_db

\* messages_db[cid] as a value
Transcript(cid) == IF Known(cid) THEN heap[messages_db[cid]] ELSE <<>>

\* d[k] = v on a Python dict
DictSet(d, k, v) == [x \in DOMAIN d \cup {k} |-> IF x = k THEN v ELSE d[x]]

\* a user_msg built with the wrong role
UserMsgMutant(r) ==
    [id |-> UserMsgId(r), role |-> "assistant", content |-> req[r].message]

\* lines 166-171: user_msg of handle_user_message
UserMsg(r) ==
    [id |-> UserMsgId(r), role |-> "user", content |-> req[r].message]

\* ai_msg of generate_response
AiMsg(r) ==
    [id |-> AiMsgId(r), role |-> "assistant", content |-> req[r].reply]

\* the metadata ensure_zep_user_and_session stores
NewBinding(user_id, conversation_id) ==
    [user_id |-> user_id, session_id |-> conversation_id, group_name |-> ""]

\* Message(role=..., role_type=..., content=...) as Zep keeps it; id is kept
\* only to tell the mirrored messages apart
ZepMsg(m) == [id |-> m.id, role_type |-> m.role, content |-> m.content]

\* a chat request: its payload, the locals and the state dict of the graph
\* run (cid, messages, found_history, reply; userErr and sessionErr are
\* str(e) of the exceptions caught in ensure_zep_user_and_session, "" when
\* none was raised, forgotten when that function has returned; getOut and
\* searchOut are what memory.get and graph.search of search_zep_history did,
\* "" when the call was not made, and prompt is merged_messages, all three
\* forgotten when chat_model.invoke has returned), its
\* response, and what it did (llm, zepCalled, before: the transcript when it
\* started)
IdleRequest ==
    [pc |-> "idle", userId |-> "", conversationId |-> "", groupName |-> "",
     message |-> "", cid |-> "", messages |-> 0,
     found_history |-> <<>>, reply |-> "", status |-> 0, response |-> <<>>,
     llm |-> "none", zepCalled |-> FALSE, before |-> <<>>,
     userErr |-> "", sessionErr |-> "", getOut |-> "", searchOut |-> "",
     prompt |-> <<>>]

\* no read has been answered since the last chat request was received
NoGet ==
    [status |-> 0, cid |-> "", source |-> "", messages |-> <<>>, zep |-> "",
     error |-> ""]

\* lines 46 and 50: both stores start empty
Init ==
    /\ conversation_metadata = <<>>
    /\ messages_db = <<>>
    /\ heap = <<>>
    /\ zep_memory = [c \in ConvIds |-> <<>>]
    /\ req = [r \in Requests |-> IdleRequest]
    /\ lastGet = NoGet

InFlight(r) == req[r].pc \notin {"idle", "done"}

\* req' with request r's record changed
Set(r, rec) == req' = [req EXCEPT ![r] = rec]

Stores == <<conversation_metadata, messages_db, heap, zep_memory>>

(* ------------------------------------------------------ POST /api/chat *)

\* chat(): read the payload and invoke the graph
Receive(r, userId, conversationId, groupName, message) ==
    /\ req[r].pc = "idle"
    /\ \A q \in Requests : q < r => req[q].pc # "idle"
    /\ userId \in UserIds
    /\ conversationId \in ClientConvIds \cup {""}
    /\ groupName \in GroupNames
    /\ message \in MessageTexts
    /\ Set(r, [req[r] EXCEPT !.pc = "handle", !.userId = userId,
                  !.conversationId = conversationId,
                  !.groupName = groupName, !.message = message])
    /\ lastGet' = NoGet
    /\ UNCHANGED Stores

\* handle_user_message without the check of lines 149-150
ResolveMutant(r) ==
    /\ req[r].pc = "handle"
    /\ LET cid == IF req[r].conversationId # "" THEN req[r].conversationId
                  ELSE uuid4(r)
       IN Set(r, [req[r] EXCEPT !.pc = "user_add", !.cid = cid,
                     !.before = Transcript(cid)])
    /\ UNCHANGED <<Stores, lastGet>>

\* handle_user_message, lines 144-150: resolve the ids, reject an empty
\* message (the ValueError reaches chat()'s except: 500)
Resolve(r) ==
    /\ req[r].pc = "handle"
    /\ LET cid == IF req[r].conversationId # "" THEN req[r].conversationId
                  ELSE uuid4(r)
       IN IF req[r].message = ""
          THEN Set(r, [req[r] EXCEPT !.pc = "done", !.status = 500])
          ELSE Set(r, [req[r] EXCEPT !.pc = "user_add", !.cid = cid,
                          !.before = Transcript(cid)])
    /\ UNCHANGED <<Stores, lastGet>>

\* user.add whose other failures are raised again (a bare raise in place of
\* the return of line 86): the exception reaches chat()'s except
EnsureUserRaises(r, out) ==
    /\ req[r].pc = "user_add"
    /\ LET proceed == out = "ok" \/ UserErrorBenign(out)
       IN IF proceed
          THEN Set(r, [req[r] EXCEPT !.pc = "add_session",
                          !.zepCalled = TRUE,
                          !.userErr = IF out = "ok" THEN "" ELSE out])
          ELSE Set(r, [req[r] EXCEPT !.pc = "done", !.status = 500,
                          !.zepCalled = TRUE, !.userErr = out])
    /\ UNCHANGED <<Stores, lastGet>>

\* ensure_zep_user_and_session, lines 72-86: zep_client.user.add
EnsureUser(r, out) ==
    /\ req[r].pc = "user_add"
    /\ LET proceed == out = "ok" \/ UserErrorBenign(out)
       IN Set(r, [req[r] EXCEPT
                    !.pc = IF proceed THEN "add_session" ELSE "group",
                    !.zepCalled = TRUE,
                    !.userErr = IF out = "ok" THEN "" ELSE out])
    /\ UNCHANGED <<Stores, lastGet>>

\* ensure_zep_user_and_session, lines 88-107: zep_client.memory.add_session,
\* then the binding is stored locally
EnsureSession(r, out) ==
    /\ req[r].pc = "add_session"
    /\ LET proceed == out = "ok" \/ SessionErrorBenign(out)
       IN /\ Set(r, [req[r] EXCEPT !.pc = "group", !.zepCalled = TRUE,
                        !.sessionErr = IF out = "ok" THEN "" ELSE out])
          /\ conversation_metadata' =
                IF proceed
                THEN DictSet(conversation_metadata, req[r].cid,
                             NewBinding(req[r].userId, req[r].cid))
                ELSE conversation_metadata
    /\ UNCHANGED <<messages_db, heap, zep_memory, lastGet>>

\* handle_user_message, lines 156-160, with ensure_zep_group (56-68): every
\* outcome of group.add is swallowed
EnsureGroup(r, out) ==
    /\ req[r].pc = "group"
    /\ IF req[r].groupName # ""
       THEN /\ Set(r, [req[r] EXCEPT !.pc = "db_check", !.zepCalled = TRUE,
                          !.userErr = "", !.sessionErr = ""])
            /\ conversation_metadata' =
                  IF Bound(req[r].cid)
                  THEN [conversation_metadata EXCEPT
                          ![req[r].cid].group_name = req[r].groupName]
                  ELSE conversation_metadata
       ELSE /\ out = "ok"
            /\ Set(r, [req[r] EXCEPT !.pc = "db_check", !.userErr = "",
                          !.sessionErr = ""])
            /\ UNCHANGED conversation_metadata
    /\ UNCHANGED <<messages_db, heap, zep_memory, lastGet>>

\* line 163: if conversation_id not in messages_db
CheckDb(r) ==
    /\ req[r].pc = "db_check"
    /\ Set(r, [req[r] EXCEPT !.pc = IF Known(req[r].cid) THEN "append"
                                       ELSE "db_init"])
    /\ UNCHANGED <<Stores, lastGet>>

\* line 164: messages_db[conversation_id] = [] (a new list object)
InitDb(r) ==
    /\ req[r].pc = "db_init"
    /\ heap' = DictSet(heap, r, <<>>)
    /\ messages_db' = DictSet(messages_db, req[r].cid, r)
    /\ Set(r, [req[r] EXCEPT !.pc = "append"])
    /\ UNCHANGED <<conversation_metadata, zep_memory, lastGet>>

\* handle_user_message without the append of line 172
AppendUserMutant(r) ==
    /\ req[r].pc = "append"
    /\ Set(r, [req[r] EXCEPT !.pc = "mirror_user"])
    /\ UNCHANGED <<Stores, lastGet>>

\* lines 166-172: messages_db[conversation_id].append(user_msg)
AppendUser(r) ==
    /\ req[r].pc = "append"
    /\ heap' = [heap EXCEPT ![messages_db[req[r].cid]] = Append(@, UserMsg(r))]
    /\ Set(r, [req[r] EXCEPT !.pc = "mirror_user"])
    /\ UNCHANGED <<conversation_metadata, messages_db, zep_memory, lastGet>>

\* store_message_in_zep (109-128): no binding, no call; otherwise memory.add,
\* whose failure is logged
StoreInZep(r, msg, out, next) ==
    IF ~Bound(req[r].cid)
    THEN /\ out = "ok"
         /\ Set(r, [req[r] EXCEPT !.pc = next])
         /\ UNCHANGED zep_memory
    ELSE /\ Set(r, [req[r] EXCEPT !.pc = next, !.zepCalled = TRUE])
         /\ zep_memory' =
               IF out = "ok"
               THEN [zep_memory EXCEPT
                       ![conversation_metadata[req[r].cid].session_id] =
                           Append(@, ZepMsg(msg))]
               ELSE zep_memory

\* line 175: store_message_in_zep(user_msg, conversation_id)
MirrorUser(r, out) ==
    /\ req[r].pc = "mirror_user"
    /\ StoreInZep(r, UserMsg(r), out, "graph_add")
    /\ UNCHANGED <<conversation_metadata, messages_db, heap, lastGet>>

\* graph.add without the try/except of lines 179-188: an exception leaves
\* the graph and reaches chat()'s except
GraphAddMutant(r, out) ==
    /\ req[r].pc = "graph_add"
    /\ IF req[r].groupName # ""
       THEN IF out = "error"
            THEN Set(r, [req[r] EXCEPT !.pc = "done", !.status = 500,
                            !.zepCalled = TRUE])
            ELSE Set(r, [req[r] EXCEPT !.pc = "hum_return",
                            !.zepCalled = TRUE])
       ELSE /\ out = "ok"
            /\ Set(r, [req[r] EXCEPT !.pc = "hum_return"])
    /\ UNCHANGED <<Stores, lastGet>>

\* lines 178-188: zep_client.graph.add, failure swallowed
GraphAdd(r, out) ==
    /\ req[r].pc = "graph_add"
    /\ IF req[r].groupName # ""
       THEN Set(r, [req[r] EXCEPT !.pc = "hum_return", !.zepCalled = TRUE])
       ELSE /\ out = "ok"
            /\ Set(r, [req[r] EXCEPT !.pc = "hum_return"])
    /\ UNCHANGED <<Stores, lastGet>>

\* a graph whose edge leaves handle_user_message for generate_response
ReturnStateSkipSearch(r) ==
    /\ req[r].pc = "hum_return"
    /\ Set(r, [req[r] EXCEPT !.pc = "llm",
                  !.messages = messages_db[req[r].cid]])
    /\ UNCHANGED <<Stores, lastGet>>

\* lines 190-195: the node's result; "messages" is the list object itself
ReturnState(r) ==
    /\ req[r].pc = "hum_return"
    /\ Set(r, [req[r] EXCEPT !.pc = "search_get",
                  !.messages = messages_db[req[r].cid]])
    /\ UNCHANGED <<Stores, lastGet>>

\* text.strip() for the message texts of the model
Strip(text) == IF text = " " THEN "" ELSE text

\* lines 233-238: the content of the last user message of the list, or ""
RECURSIVE LastUserContent(_)
LastUserContent(msgs) ==
    IF msgs = <<>> THEN ""
    ELSE IF msgs[Len(msgs)].role = "user" THEN msgs[Len(msgs)].content
    ELSE LastUserContent(SubSeq(msgs, 1, Len(msgs) - 1))

\* lines 224-228: each Zep message as a found_history entry
HistoryEntries(zmsgs) ==
    [i \in 1..Len(zmsgs) |->
        [role_type |-> zmsgs[i].role_type, content |-> zmsgs[i].content]]

\* lines 248-253: a found_history entry for a graph edge
FactEntry(fact) ==
    [role_type |-> "assistant", content |-> "Group Fact: " \o fact]

\* search_zep_history without the return of lines 210-212: memory.get is
\* called with the conversation id as the session id
SearchHistoryNoGuard(r, out) ==
    /\ req[r].pc = "search_get"
    /\ Set(r, [req[r] EXCEPT !.pc = "search_graph", !.zepCalled = TRUE,
                  !.getOut = out,
                  !.found_history =
                      IF out = "ok" THEN HistoryEntries(zep_memory[req[r].cid])
                      ELSE <<>>])
    /\ UNCHANGED <<Stores, lastGet>>

\* search_zep_history, lines 204-230: no binding, empty context and the node
\* returns; otherwise zep_client.memory.get, failure swallowed
SearchHistory(r, out) ==
    /\ req[r].pc = "search_get"
    /\ IF ~Bound(req[r].cid)
       THEN /\ out = "ok"
            /\ Set(r, [req[r] EXCEPT !.pc = "llm", !.found_history = <<>>])
       ELSE LET sid == conversation_metadata[req[r].cid].session_id
            IN Set(r, [req[r] EXCEPT !.pc = "search_graph", !.zepCalled = TRUE,
                          !.getOut = out,
                          !.found_history =
                              IF out = "ok" THEN HistoryEntries(zep_memory[sid])
                              ELSE <<>>])
    /\ UNCHANGED <<Stores, lastGet>>

\* search_zep_history without the strip() of line 240
SearchGraphNoStrip(r, out, fact) ==
    /\ req[r].pc = "search_graph"
    /\ IF LastUserContent(heap[req[r].messages]) # ""
          /\ req[r].groupName # ""
       THEN Set(r, [req[r] EXCEPT !.pc = "llm", !.zepCalled = TRUE,
                       !.searchOut = out,
                       !.found_history =
                           IF out = "ok" THEN Append(@, FactEntry(fact))
                           ELSE @])
       ELSE /\ out = "ok"
            /\ Set(r, [req[r] EXCEPT !.pc = "llm"])
    /\ UNCHANGED <<Stores, lastGet>>

\* search_zep_history, lines 232-260: zep_client.graph.search on the group of
\* the request when the last user message is not blank
SearchGraph(r, out, fact) ==
    /\ req[r].pc = "search_graph"
    /\ IF Strip(LastUserContent(heap[req[r].messages])) # ""
          /\ req[r].groupName # ""
       THEN Set(r, [req[r] EXCEPT !.pc = "llm", !.zepCalled = TRUE,
                       !.searchOut = out,
                       !.found_history =
                           IF out = "ok" THEN Append(@, FactEntry(fact))
                           ELSE @])
       ELSE /\ out = "ok"
            /\ Set(r, [req[r] EXCEPT !.pc = "llm"])
    /\ UNCHANGED <<Stores, lastGet>>

\* generate_response, lines 275-300: the prompt.  Every found_history entry
\* whose role_type is not "user" becomes an AIMessage and its content a line
\* of the system message; the local messages follow
FactsLines(found_history) ==
    SelectSeq(found_history, LAMBDA e : e.role_type # "user")

MergedMessages(found_history, local_messages) ==
    (IF FactsLines(found_history) # <<>>
     THEN <<[type |-> "system",
             content |-> [i \in 1..Len(FactsLines(found_history)) |->
                             FactsLines(found_history)[i].content]]>>
     ELSE <<>>)
    \o [i \in 1..Len(local_messages) |->
          [type |-> IF local_messages[i].role = "user" THEN "human" ELSE "ai",
           content |-> <<local_messages[i].content>>]]

\* generate_response, lines 270-300: merged_messages is built from
\* state["found_history"] and state["messages"]
BuildPrompt(r) ==
    /\ req[r].pc = "llm"
    /\ Set(r, [req[r] EXCEPT !.pc = "invoke",
                  !.prompt = MergedMessages(req[r].found_history,
                                            heap[req[r].messages])])
    /\ UNCHANGED <<Stores, lastGet>>

\* chat_model.invoke with its exception swallowed and an empty reply used
InvokeLLMMutant(r, out, reply) ==
    /\ req[r].pc = "invoke"
    /\ Set(r, [req[r] EXCEPT !.pc = "ai_append",
                  !.llm = IF out = "ok" THEN "ok" ELSE "fail",
                  !.reply = IF out = "ok" THEN reply ELSE "",
                  !.found_history = <<>>, !.prompt = <<>>,
                  !.getOut = "", !.searchOut = ""])
    /\ UNCHANGED <<Stores, lastGet>>

\* chat_model.invoke whose exception handler takes the user message of the
\* turn off the list again
InvokeLLMRollback(r, out, reply) ==
    /\ req[r].pc = "invoke"
    /\ IF out = "ok"
       THEN /\ Set(r, [req[r] EXCEPT !.pc = "ai_append", !.llm = "ok",
                          !.reply = reply, !.found_history = <<>>,
                          !.prompt = <<>>, !.getOut = "", !.searchOut = ""])
            /\ UNCHANGED <<Stores, lastGet>>
       ELSE /\ Set(r, [req[r] EXCEPT !.pc = "done", !.llm = "fail",
                          !.status = 500, !.found_history = <<>>,
                          !.prompt = <<>>, !.getOut = "", !.searchOut = ""])
            /\ heap' = [heap EXCEPT ![req[r].messages] =
                            SubSeq(@, 1, Len(@) - 1)]
            /\ UNCHANGED <<conversation_metadata, messages_db, zep_memory,
                           lastGet>>

\* generate_response, line 305: chat_model.invoke; an exception leaves the
\* graph and reaches chat()'s except: 500
InvokeLLM(r, out, reply) ==
    /\ req[r].pc = "invoke"
    /\ IF out = "ok"
       THEN Set(r, [req[r] EXCEPT !.pc = "ai_append", !.llm = "ok",
                       !.reply = reply, !.found_history = <<>>,
                       !.prompt = <<>>, !.getOut = "", !.searchOut = ""])
       ELSE Set(r, [req[r] EXCEPT !.pc = "done", !.llm = "fail",
                       !.status = 500, !.found_history = <<>>,
                       !.prompt = <<>>, !.getOut = "", !.searchOut = ""])
    /\ UNCHANGED <<Stores, lastGet>>

\* local_messages.insert(0, ai_msg) in place of the append
AppendAiFront(r) ==
    /\ req[r].pc = "ai_append"
    /\ heap' = [heap EXCEPT ![req[r].messages] = <<AiMsg(r)>> \o @]
    /\ Set(r, [req[r] EXCEPT !.pc = "ai_assign"])
    /\ UNCHANGED <<conversation_metadata, messages_db, zep_memory, lastGet>>

\* line 314: local_messages.append(ai_msg)
AppendAi(r) ==
    /\ req[r].pc = "ai_append"
    /\ heap' = [heap EXCEPT ![req[r].messages] = Append(@, AiMsg(r))]
    /\ Set(r, [req[r] EXCEPT !.pc = "ai_assign"])
    /\ UNCHANGED <<conversation_metadata, messages_db, zep_memory, lastGet>>

\* line 315: messages_db[conversation_id] = local_messages
AssignDb(r) ==
    /\ req[r].pc = "ai_assign"
    /\ messages_db' = DictSet(messages_db, req[r].cid, req[r].messages)
    /\ Set(r, [req[r] EXCEPT !.pc = "mirror_ai"])
    /\ UNCHANGED <<conversation_metadata, heap, zep_memory, lastGet>>

\* line 316: store_message_in_zep(ai_msg, conversation_id)
MirrorAi(r, out) ==
    /\ req[r].pc = "mirror_ai"
    /\ StoreInZep(r, AiMsg(r), out, "respond")
    /\ UNCHANGED <<conversation_metadata, messages_db, heap, lastGet>>

\* lines 320-323 and 385: the result is the response, 200
Respond(r) ==
    /\ req[r].pc = "respond"
    /\ Set(r, [req[r] EXCEPT !.pc = "done", !.status = 200,
                  !.response = <<AiMsg(r)>>])
    /\ UNCHANGED <<Stores, lastGet>>

(* ---------------------------------- GET /api/conversations/<conversation_id> *)

\* the local fallback of lines 409-415: the local list, or 404
LocalOrNotFound(cid, zep) ==
    IF Known(cid)
    THEN [status |-> 200, cid |-> cid, source |-> "local",
          messages |-> heap[messages_db[cid]], zep |-> zep, error |-> ""]
    ELSE [status |-> 404, cid |-> cid, source |-> "", messages |-> <<>>,
          zep |-> zep, error |-> "Conversation not found"]

\* the response of get_conversation_route, lines 397-419; out is what
\* zep_client.memory.get does when the conversation is bound
GetResponse(cid, out) ==
    IF Bound(cid) /\ out = "error"
    THEN [status |-> 500, cid |-> cid, source |-> "", messages |-> <<>>,
          zep |-> out, error |-> "exception"]
    ELSE IF Bound(cid) /\ out = "ok"
    THEN [status |-> 200, cid |-> cid, source |-> "zep",
          messages |-> zep_memory[conversation_metadata[cid].session_id],
          zep |-> out, error |-> ""]
    ELSE LocalOrNotFound(cid, IF Bound(cid) THEN out ELSE "")

\* a read that answers an unknown conversation with an empty list, 200
GetConversationEmptyList(cid, out) ==
    /\ lastGet' =
          IF ~Known(cid) /\ ~(Bound(cid) /\ out # "none")
          THEN [status |-> 200, cid |-> cid, source |-> "local",
                messages |-> <<>>, zep |-> IF Bound(cid) THEN out ELSE "",
                error |-> ""]
          ELSE GetResponse(cid, out)
    /\ UNCHANGED <<Stores, req>>

\* a read that creates the list of an unknown conversation
\* (messages_db.setdefault(conversation_id, []))
GetConversationSetDefault(cid, out) ==
    /\ lastGet' = GetResponse(cid, out)
    /\ IF Known(cid)
       THEN UNCHANGED <<messages_db, heap>>
       ELSE /\ heap' = DictSet(heap, 0, <<>>)
            /\ messages_db' = DictSet(messages_db, cid, 0)
    /\ UNCHANGED <<conversation_metadata, zep_memory, req>>

\* get_conversation_route, lines 397-419
GetConversation(cid, out) ==
    /\ lastGet' = GetResponse(cid, out)
    /\ UNCHANGED <<Stores, req>>

(* ------------------------------------------------------- specifications *)

\* no chat request is between its receipt and its response
Quiet == \A r \in Requests : ~InFlight(r)

Step(r) ==
    \/ Resolve(r)
    \/ \E out \in CreateOutcomes : EnsureUser(r, out)
    \/ \E out \in CreateOutcomes : EnsureSession(r, out)
    \/ \E out \in CreateOutcomes : EnsureGroup(r, out)
    \/ CheckDb(r)
    \/ InitDb(r)
    \/ AppendUser(r)
    \/ \E out \in CallOutcomes : MirrorUser(r, out)
    \/ \E out \in CallOutcomes : GraphAdd(r, out)
    \/ ReturnState(r)
    \/ \E out \in CallOutcomes : SearchHistory(r, out)
    \/ \E out \in CallOutcomes, fact \in Facts : SearchGraph(r, out, fact)
    \/ BuildPrompt(r)
    \/ \E out \in {"ok", "error"}, reply \in Replies : InvokeLLM(r, out, reply)
    \/ AppendAi(r)
    \/ AssignDb(r)
    \/ \E out \in CallOutcomes : MirrorAi(r, out)
    \/ Respond(r)

Get ==
    \E cid \in ConvIds, out \in CallOutcomes :
        /\ Bound(cid) \/ out = "ok"
        /\ GetConversation(cid, out)

\* requests are served one after the other
Next ==
    \/ \E r \in Requests, userId \in UserIds,
          conversationId \in ClientConvIds \cup {""},
          groupName \in GroupNames, message \in MessageTexts :
            /\ Quiet
            /\ Receive(r, userId, conversationId, groupName, message)
    \/ \E r \in Requests : Step(r)
    \/ Quiet /\ Get

Spec == Init /\ [][Next]_vars

\* requests are served by concurrent threads; the messages are the missing
\* one and the one that is not white space
ConcNext ==
    \/ \E r \in Requests, userId \in UserIds,
          conversationId \in ClientConvIds \cup {""},
          groupName \in GroupNames, message \in MessageTexts \ {" "} :
            Receive(r, userId, conversationId, groupName, message)
    \/ \E r \in Requests : Step(r)

ConcSpec == Init /\ [][ConcNext]_vars

(* ---------------------------------------------------------------- claims *)

\* the chat requests that resolved to conversation cid
TurnsOn(cid) == {r \in Requests : req[r].cid = cid}

\* the j-th of them in the order they were received
NthTurn(cid, j) ==
    CHOOSE r \in TurnsOn(cid) :
        Cardinality({q \in TurnsOn(cid) : q < r}) = j - 1

\* request r is finished and no later request has been received
LatestDone(r) ==
    /\ req[r].pc = "done"
    /\ \A q \in Requests : q > r => req[q].pc = "idle"

IsUserTurn(m, r) == m.role = "user" /\ m.content = req[r].message

IsAiTurn(m, r) == m.role = "assistant" /\ m.content = req[r].reply

\* C1: a chat request with a non-empty message that ends 200 has grown the
\* transcript of its conversation by exactly two messages, the user message
\* with the request's text and then the assistant message with the reply;
\* and when every turn on a conversation ended 200, k turns leave the 2k
\* messages user1, assistant1, ..., userk, assistantk.
C1_TurnAppendsUserThenAssistant ==
    /\ \A r \in Requests :
          LatestDone(r) /\ req[r].status = 200 =>
            LET t == Transcript(req[r].cid)
                n == Len(req[r].before)
            IN /\ req[r].message # ""
               /\ Len(t) = n + 2
               /\ SubSeq(t, 1, n) = req[r].before
               /\ IsUserTurn(t[n + 1], r)
               /\ IsAiTurn(t[n + 2], r)
               /\ req[r].response = <<t[n + 2]>>
    /\ \A cid \in ConvIds :
          Quiet /\ (\A r \in TurnsOn(cid) : req[r].status = 200) =>
            LET t == Transcript(cid)
                k == Cardinality(TurnsOn(cid))
            IN /\ Len(t) = 2 * k
               /\ \A j \in 1..k :
                     /\ IsUserTurn(t[2 * j - 1], NthTurn(cid, j))
                     /\ IsAiTurn(t[2 * j], NthTurn(cid, j))

\* two successful turns on one conversation have left four messages
C1_Witness ==
    \E cid \in ConvIds :
        /\ Quiet
        /\ Cardinality(TurnsOn(cid)) = 2
        /\ \A r \in TurnsOn(cid) : req[r].status = 200
        /\ Len(Transcript(cid)) = 4

HasId(msgs, id) == \E i \in 1..Len(msgs) : msgs[i].id = id

\* C2: once all concurrent chat requests have completed, every user message
\* and every assistant message any of them appended is in messages_db for
\* its conversation.
C2_NoMessageLost ==
    Quiet =>
      \A r \in Requests :
          /\ req[r].cid # "" =>
                HasId(Transcript(req[r].cid), UserMsgId(r))
          /\ req[r].status = 200 =>
                HasId(Transcript(req[r].cid), AiMsgId(r))

\* C3: a binding, once created, is not created again or replaced: its
\* external user id and session id stay those of the first ingest.
C3_BindingCreatedOnce ==
    [][\A c \in DOMAIN conversation_metadata :
          /\ c \in DOMAIN conversation_metadata'
          /\ conversation_metadata'[c].user_id =
                conversation_metadata[c].user_id
          /\ conversation_metadata'[c].session_id =
                conversation_metadata[c].session_id]_vars

\* a chat request has finished
SomeDone == \E r \in Requests : req[r].pc = "done"

Ingested(cid) == Len(Transcript(cid)) >= 1

\* C4 (as stated): after a chat request has finished, a conversation has a
\* binding if and only if at least one message was ingested for it.
C4_BindingIffIngested ==
    Quiet /\ SomeDone => \A cid \in ConvIds : Bound(cid) <=> Ingested(cid)

\* C4 (amended): after a chat request has finished, a conversation that has
\* a binding has at least one ingested message (a conversation may have
\* ingested messages and no binding).
C4_BindingOnlyIfIngested ==
    Quiet /\ SomeDone => \A cid \in ConvIds : Bound(cid) => Ingested(cid)

\* both cases after finished requests: a bound conversation with messages,
\* and a conversation with messages and no binding
C4_Witness ==
    /\ Quiet
    /\ \E cid \in ConvIds : Bound(cid) /\ Ingested(cid)
    /\ \E cid \in ConvIds : ~Bound(cid) /\ Ingested(cid)

\* C5: a chat request that supplies no groupName leaves the group name its
\* conversation's binding records unchanged.
C5_GroupNameKept ==
    [][\A c \in DOMAIN conversation_metadata :
          /\ conversation_metadata[c].group_name # ""
          /\ \E r \in Requests :
                InFlight(r) /\ req[r].cid = c /\ req[r].groupName = ""
          => /\ c \in DOMAIN conversation_metadata'
             /\ conversation_metadata'[c].group_name =
                   conversation_metadata[c].group_name]_vars

\* C6: a chat request with a non-empty message reaches the LLM call whatever
\* the Zep calls of ingest and retrieval did, and when the LLM call succeeds
\* the request ends 200 with the assistant message, the user and the
\* assistant message being the last two of the local transcript.
C6_DegradationNotFailure ==
    \A r \in Requests :
        LatestDone(r) /\ req[r].message # "" =>
          /\ req[r].llm # "none"
          /\ req[r].llm = "ok" =>
                LET t == Transcript(req[r].cid)
                    n == Len(t)
                IN /\ req[r].status = 200
                   /\ Len(req[r].response) = 1
                   /\ IsAiTurn(req[r].response[1], r)
                   /\ n >= 2
                   /\ IsUserTurn(t[n - 1], r)
                   /\ t[n] = req[r].response[1]

\* a request ended 200 although user or session creation failed (no binding)
\* and a group was given
C6_Witness ==
    \E r \in Requests :
        /\ req[r].pc = "done"
        /\ req[r].status = 200
        /\ req[r].groupName # ""
        /\ ~Bound(req[r].cid)

\* C7: a chat request whose LLM call failed ends 500 with no message in the
\* response, and its assistant message is neither in the local transcript
\* (which ends with the request's user message) nor in the Zep session.
C7_GenerationFailedNoPartial ==
    \A r \in Requests :
        req[r].pc = "done" /\ req[r].llm = "fail" =>
          /\ req[r].status = 500
          /\ req[r].response = <<>>
          /\ ~HasId(Transcript(req[r].cid), AiMsgId(r))
          /\ ~HasId(zep_memory[req[r].cid], AiMsgId(r))
          /\ LatestDone(r) =>
                Transcript(req[r].cid) =
                    Append(req[r].before,
                           [id |-> UserMsgId(r), role |-> "user",
                            content |-> req[r].message])

\* the LLM call of a request on a bound conversation failed
C7_Witness ==
    \E r \in Requests :
        /\ req[r].pc = "done"
        /\ req[r].llm = "fail"
        /\ Bound(req[r].cid)
        /\ HasId(zep_memory[req[r].cid], UserMsgId(r))

\* C8: the step that handles a chat request whose message is missing or
\* empty ends the request with an error and changes neither messages_db nor
\* conversation_metadata, and the request has called neither Zep nor the LLM.
C8_EmptyMessageRejected ==
    [][\A r \in Requests :
          req[r].pc = "handle" /\ req[r].message = "" /\ req'[r] # req[r] =>
            /\ req'[r].pc = "done"
            /\ req'[r].status = 500
            /\ req'[r].response = <<>>
            /\ ~req'[r].zepCalled
            /\ req'[r].llm = "none"
            /\ UNCHANGED Stores]_vars

\* an empty message was rejected while the stores held a conversation
C8_Witness ==
    \E r \in Requests :
        /\ req[r].pc = "done"
        /\ req[r].message = ""
        /\ req[r].status = 500
        /\ \E cid \in ConvIds : Bound(cid) /\ Ingested(cid)

\* C9: a read returns the Zep messages when the conversation is bound and
\* memory.get succeeds, and returns the local transcript, 200, when the
\* conversation is not bound or memory.get fails (raises or returns nothing)
\* and messages_db has the conversation.
C9_ExternalFirstLocalFallback ==
    lastGet.status # 0 =>
      LET cid == lastGet.cid
      IN /\ Bound(cid) /\ lastGet.zep = "ok" =>
               /\ lastGet.status = 200
               /\ lastGet.source = "zep"
               /\ lastGet.messages =
                     zep_memory[conversation_metadata[cid].session_id]
         /\ (~Bound(cid) \/ lastGet.zep \in {"none", "error"}) /\ Known(cid) =>
               /\ lastGet.status = 200
               /\ lastGet.source = "local"
               /\ lastGet.messages = Transcript(cid)

\* the chat request received last
LastTurn == CHOOSE r \in Requests :
                /\ req[r].pc # "idle"
                /\ \A q \in Requests : q > r => req[q].pc = "idle"

\* C10: a read of a conversation right after a successful chat turn on it,
\* with Zep retrieval unavailable, ends 200 from the local transcript and the
\* last message returned is the assistant message of that turn, bound or not.
C10_ReadAfterWrite ==
    /\ lastGet.status # 0
    /\ \E r \in Requests : req[r].pc # "idle"
    /\ req[LastTurn].status = 200
    /\ req[LastTurn].cid = lastGet.cid
    /\ lastGet.zep # "ok"
    => /\ lastGet.status = 200
       /\ lastGet.source = "local"
       /\ lastGet.messages # <<>>
       /\ lastGet.messages[Len(lastGet.messages)] = req[LastTurn].response[1]

\* C11: a read of a conversation id that has neither a binding nor a local
\* transcript answers 404, "Conversation not found".
C11_UnknownIdNotFound ==
    lastGet.status # 0 /\ ~Bound(lastGet.cid) /\ ~Known(lastGet.cid) =>
      /\ lastGet.status = 404
      /\ lastGet.error = "Conversation not found"
      /\ lastGet.messages = <<>>

\* an unknown id was read while another conversation was stored
C11_Witness ==
    /\ lastGet.status = 404
    /\ ~Bound(lastGet.cid) /\ ~Known(lastGet.cid)
    /\ \E cid \in ConvIds : Known(cid)

IsPrefix(a, b) == Len(a) <= Len(b) /\ SubSeq(b, 1, Len(a)) = a

\* C12: across every step of chat and read requests served one after the
\* other, the message list of every conversation before the step is a prefix
\* of its list after the step, and a stored conversation stays stored.
C12_TranscriptAppendOnly ==
    [][\A cid \in ConvIds :
          /\ Known(cid) => Known(cid)'
          /\ IsPrefix(Transcript(cid), Transcript(cid)')]_vars

\* a transcript has grown over two turns and has been read
C12_Witness ==
    \E cid \in ConvIds :
        /\ Len(Transcript(cid)) >= 3
        /\ lastGet.status = 200
        /\ lastGet.cid = cid

\* the steps of a chat request in program order
PcOrder ==
    <<"idle", "handle", "user_add", "add_session", "group", "db_check",
      "db_init", "append", "mirror_user", "graph_add", "hum_return",
      "search_get", "search_graph", "llm", "invoke", "ai_append", "ai_assign",
      "mirror_ai", "respond", "done">>

PcIndex(pc) == CHOOSE i \in 1..Len(PcOrder) : PcOrder[i] = pc

\* the stage a step belongs to: 1 ingest, 2 context retrieval, 3 generate
\* and persist; 0 before the graph runs, 4 after it
Stage(pc) ==
    CASE pc = "idle" -> 0
      [] pc \in {"search_get", "search_graph"} -> 2
      [] pc \in {"llm", "invoke", "ai_append", "ai_assign", "mirror_ai", "respond"} -> 3
      [] pc = "done" -> 4
      [] OTHER -> 1

\* C13: a chat request moves forward through its steps only; it enters
\* context retrieval only from the last step of ingest and generation only
\* from a step of context retrieval, so no stage is skipped, repeated or run
\* beside another; it ends 200 only from the last step of generation, and
\* otherwise ends with an error.
C13_StagesInOrder ==
    [][\A r \in Requests :
          req'[r].pc # req[r].pc =>
            /\ PcIndex(req'[r].pc) > PcIndex(req[r].pc)
            /\ Stage(req'[r].pc) = 1 =>
                  Stage(req[r].pc) \in {0, 1}
            /\ Stage(req'[r].pc) = 2 =>
                  Stage(req[r].pc) = 2 \/ req[r].pc = "hum_return"
            /\ Stage(req'[r].pc) = 3 =>
                  Stage(req[r].pc) \in {2, 3}
            /\ req'[r].pc = "done" =>
                  \/ req[r].pc = "respond" /\ req'[r].status = 200
                  \/ req'[r].status = 500]_vars

\* a request with a group on a bound conversation went through all stages
C13_Witness ==
    \E r \in Requests :
        /\ req[r].pc = "done"
        /\ req[r].status = 200
        /\ req[r].groupName # ""
        /\ Bound(req[r].cid)
        /\ HasId(zep_memory[req[r].cid], AiMsgId(r))

\* C14: a read, whatever its outcome, leaves messages_db, the message lists,
\* conversation_metadata and the Zep sessions unchanged.
C14_ReadOnlyFetch ==
    [][lastGet' # lastGet /\ lastGet'.status # 0 =>
          /\ conversation_metadata' = conversation_metadata
          /\ messages_db' = messages_db
          /\ heap' = heap
          /\ zep_memory' = zep_memory
          /\ req' = req]_vars

\* a read answered 404 and left the stores holding another conversation
C14_Witness ==
    /\ lastGet.status = 404
    /\ \E cid \in ConvIds : Bound(cid) /\ Ingested(cid)
    /\ lastGet.cid \notin DOMAIN messages_db

\* the error text says that the resource already exists
SaysAlreadyExists(text) ==
    text \in {"User already exists", "Session already exists",
              "Group already exists"}

\* the binding ensure_zep_user_and_session records for request r
BindingOf(r) ==
    [user_id |-> req[r].userId, session_id |-> req[r].cid, group_name |-> ""]

\* what C15 says of the two creation steps of request r, benignUser and
\* benignSession telling which error texts count as "already exists"
CreationSteps(r, benignUser(_), benignSession(_)) ==
    /\ req[r].pc = "user_add" /\ req'[r].pc # "user_add" =>
          IF req'[r].userErr = "" \/ benignUser(req'[r].userErr)
          THEN req'[r].pc = "add_session"
          ELSE /\ req'[r].pc = "group"
               /\ conversation_metadata' = conversation_metadata
    /\ req[r].pc = "add_session" /\ req'[r].pc # "add_session" =>
          /\ req'[r].pc = "group"
          /\ IF req'[r].sessionErr = "" \/ benignSession(req'[r].sessionErr)
             THEN /\ Bound(req[r].cid)'
                  /\ conversation_metadata'[req[r].cid] = BindingOf(r)
             ELSE conversation_metadata' = conversation_metadata
    /\ req[r].cid # "" /\ PcIndex(req'[r].pc) > PcIndex("append") =>
          \E i \in 1..Len(Transcript(req[r].cid)') :
              /\ Transcript(req[r].cid)'[i].id = UserMsgId(r)
              /\ IsUserTurn(Transcript(req[r].cid)'[i], r)

NotBlank(text) == text \notin {"", " "}

\* the group the binding of conversation cid records, "" when it records
\* none or there is no binding
RecordedGroup(cid) ==
    IF Bound(cid) THEN conversation_metadata[cid].group_name ELSE ""

\* a context entry that the group fact search derived
IsFactEntry(e) ==
    \E f \in Facts :
        e = [role_type |-> "assistant", content |-> "Group Fact: " \o f]

\* what C16 says of request r when context retrieval has returned, group
\* being the group the search is about
GroupSearch(r, group) ==
    /\ req[r].pc = "llm" =>
          /\ req[r].searchOut # "" <=>
                /\ Bound(req[r].cid)
                /\ group # ""
                /\ NotBlank(req[r].message)
          /\ req[r].searchOut # "ok" =>
                \A i \in 1..Len(req[r].found_history) :
                    ~IsFactEntry(req[r].found_history[i])
    /\ req[r].pc = "done" /\ req[r].cid # "" => req[r].llm # "none"

\* C16 (as stated): the group fact search is issued exactly when the binding
\* of the conversation records a group and the most recent user message is
\* not empty, so also in a follow-up turn that names no group; a search that
\* fails adds no fact and the request goes on to generation.
C16_SearchIffGroupBound ==
    \A r \in Requests : GroupSearch(r, RecordedGroup(req[r].cid))

\* C16 (amended): the group fact search is issued exactly when the
\* conversation has a binding, the request itself names a group and the most
\* recent user message is not blank; a search that fails adds no fact and
\* the request goes on to generation.
C16_SearchIffGroupRequested ==
    \A r \in Requests : GroupSearch(r, req[r].groupName)

\* a follow-up turn that names the group: the search was issued, failed, and
\* the context holds no fact
C16_Witness ==
    \E r \in Requests :
        /\ req[r].pc = "llm"
        /\ req[r].before # <<>>
        /\ req[r].groupName # ""
        /\ req[r].searchOut = "error"
        /\ \A i \in 1..Len(req[r].found_history) :
               ~IsFactEntry(req[r].found_history[i])

\* the local messages in the role vocabulary of the model
AsModelTurns(local) ==
    [i \in 1..Len(local) |->
        [type |-> IF local[i].role = "user" THEN "human" ELSE "ai",
         content |-> <<local[i].content>>]]

\* C17: the prompt handed to the model starts with one system message
\* exactly when the context holds a derived fact, that message is built
\* from the text of the derived facts only, and the local messages follow,
\* user as human and assistant as AI turns, in their order.
C17_PromptFromDerivedFacts ==
    \A r \in Requests :
        req[r].pc = "invoke" =>
            LET facts == SelectSeq(req[r].found_history, IsFactEntry)
                p == req[r].prompt
                sys == p # <<>> /\ p[1].type = "system"
                rest == IF sys THEN Tail(p) ELSE p
            IN /\ sys <=> facts # <<>>
               /\ sys => p[1].content =
                            [i \in 1..Len(facts) |-> facts[i].content]
               /\ rest = AsModelTurns(heap[req[r].messages])

\* C18: when the conversation has no binding, context retrieval calls
\* neither memory.get nor graph.search, returns an empty context, leaves the
\* fields of ingest and every store as they were, and goes on to generation
\* without a failure.
C18_NoBindingEmptyContext ==
    [][\A r \in Requests :
          /\ req[r].pc = "search_get"
          /\ ~Bound(req[r].cid)
          /\ req'[r].pc # "search_get"
          => /\ req'[r].pc = "llm"
             /\ req'[r].found_history = <<>>
             /\ req'[r].getOut = "" /\ req'[r].searchOut = ""
             /\ req'[r].zepCalled = req[r].zepCalled
             /\ req'[r].userId = req[r].userId
             /\ req'[r].cid = req[r].cid
             /\ req'[r].groupName = req[r].groupName
             /\ req'[r].messages = req[r].messages
             /\ req'[r].status = 0
             /\ UNCHANGED Stores]_vars

\* a request that names a group on a conversation without binding has left
\* context retrieval with an empty context and no call made
C18_Witness ==
    \E r \in Requests :
        /\ req[r].pc = "llm"
        /\ ~Bound(req[r].cid)
        /\ req[r].groupName # ""
        /\ NotBlank(req[r].message)
        /\ req[r].found_history = <<>>
        /\ req[r].getOut = "" /\ req[r].searchOut = ""

\* request q is the turn that follows request r on the conversation of r
FollowsOn(r, q) ==
    /\ r < q
    /\ req[q].cid = req[r].cid
    /\ \A p \in Requests : r < p /\ p < q => req[p].cid # req[r].cid

\* C19: a chat turn whose LLM call fails is not rolled back.  The failing
\* step changes no store and leaves the transcript one user message longer
\* than the turn found it; from then on that message stays in the transcript
\* and, where it was mirrored, in the Zep session; and when the next turn on
\* the conversation ends 200 the transcript ends with the user message of
\* the failed turn, the user message of that turn and its assistant reply.
C19_FailedTurnNotRolledBack ==
    [][\A r \in Requests :
          /\ req[r].pc = "invoke" /\ req'[r].pc = "done" =>
                /\ UNCHANGED Stores
                /\ Transcript(req[r].cid)' =
                       Append(req[r].before,
                              [id |-> UserMsgId(r), role |-> "user",
                               content |-> req[r].message])
          /\ req[r].pc = "done" /\ req[r].llm = "fail" =>
                /\ HasId(Transcript(req[r].cid)', UserMsgId(r))
                /\ HasId(zep_memory[req[r].cid], UserMsgId(r)) =>
                      HasId(zep_memory'[req[r].cid], UserMsgId(r))
                /\ \A q \in Requests :
                      /\ FollowsOn(r, q)
                      /\ req[q].pc = "respond"
                      /\ req'[q].pc = "done" /\ req'[q].status = 200
                      => LET t == Transcript(req[r].cid)'
                             n == Len(req[r].before)
                         IN /\ Len(t) = n + 3
                            /\ t[n + 1].id = UserMsgId(r)
                            /\ t[n + 1].role = "user"
                            /\ t[n + 2].id = UserMsgId(q)
                            /\ t[n + 2].role = "user"
                            /\ t[n + 3].id = AiMsgId(q)
                            /\ t[n + 3].role = "assistant"]_vars

\* the first turn failed at the LLM after its message was mirrored, the
\* second ended 200: two user messages and then the reply
C19_Witness ==
    \E r, q \in Requests :
        /\ FollowsOn(r, q)
        /\ req[r].pc = "done" /\ req[r].llm = "fail"
        /\ req[q].pc = "done" /\ req[q].status = 200
        /\ HasId(zep_memory[req[r].cid], UserMsgId(r))
        /\ LET t == Transcript(req[r].cid)
           IN /\ Len(t) = 3
              /\ t[1].role = "user" /\ t[1].id = UserMsgId(r)
              /\ t[2].role = "user" /\ t[2].id = UserMsgId(q)
              /\ t[3].role = "assistant"

====
